---- MODULE Spec2Model ----
(***************************************************************************)
(* The GM ticket registry of src/game/GMTicketMgr.h: GMTicket (one help    *)
(* request) and GMTicketMgr (the tickets by player guid, the list of the   *)
(* tickets in creating order, and the accept-tickets flag), with the       *)
(* character_ticket table the tickets are saved to.                        *)
(*                                                                         *)
(* m_GMTicketMap is a function from guids to tickets.  An element of       *)
(* m_GMTicketListByCreatingOrder is a GMTicket*, the address of a node of  *)
(* the std::map; a node never moves, so the address is modelled by the key *)
(* of the node.                                                            *)
(***************************************************************************)
EXTENDS Integers, Sequences, FiniteSets, TLC

\* Players have the guids 1..MaxGuid.
MaxGuid == 3
\* The longest creating-order list an operation may build.
MaxLen == 4
\* time(NULL) runs from 1 to MaxTime.
MaxTime == 2
\* The players whose tickets are edited have the guids 1..MaxAuthor.
MaxAuthor == 2
MaxQueue == 3
MaxRows == 3

\* ObjectGuid(): the guid of no player; it converts to false.
Empty == 0
\* The null GMTicket*.
NULL == -1
\* The process is aborted: no pointer is returned.
Aborted == -2
Malformed == -3

Players == 1..MaxGuid
Authors == 1..MaxAuthor
ObjectGuids == {Empty} \cup Players
Texts == {"a", "b"}
\* The null pointer passed as const char* text.
NullText == "NULL"
\* What a caller can pass as const char* text.
TextArgs == Texts \cup {NullText}
Responses == {"r"}
Positions == 0..(MaxLen + 1)

VARIABLES
    m_TicketSystemOn,                 \* GMTicketMgr::m_TicketSystemOn
    m_GMTicketMap,                    \* GMTicketMgr::m_GMTicketMap
    m_GMTicketListByCreatingOrder,    \* GMTicketMgr::m_GMTicketListByCreatingOrder
    db,                               \* the rows of character_ticket, in insertion order
    now,                              \* time(NULL)
    lastCall,                         \* the most recent call on the manager, with its arguments
    dbCalls,                          \* the statements that call executed on the database
    createRank,                       \* history: the tickets created and not deleted since,
                                      \* ranked by the time of their most recent Create
    returned,                         \* what the most recent call returned to its caller
    storeUp,                          \* the database executes the statements it is given
    asyncStore,                       \* the database client queues the statements
    queue,                            \* the statements queued and not yet applied
    online,                           \* the players with a session
    sent                              \* the packets the most recent Close sent

\* What a call on the manager leaves alone, but for the flag.
env == <<now, storeUp, asyncStore, online, sent>>

vars == <<m_TicketSystemOn, m_GMTicketMap, m_GMTicketListByCreatingOrder, db, now,
          lastCall, dbCalls, createRank, returned, storeUp, asyncStore, queue,
          online, sent>>

----------------------------------------------------------------------------
(* GMTicket *)

\* GMTicket(): m_guid, m_text and m_responseText default-constructed, m_lastUpdate(0).
NewTicket ==
    [m_guid |-> Empty, m_text |-> "", m_responseText |-> "", m_lastUpdate |-> 0]

\* GMTicket::Init: sets all four fields.
TicketInit(guid, text, responsetext, update) ==
    [m_guid |-> guid, m_text |-> text, m_responseText |-> responsetext,
     m_lastUpdate |-> update]

\* The row GMTicket::SaveToDB writes for a ticket.
RowOf(ticket) ==
    [guid |-> ticket.m_guid, ticket_text |-> ticket.m_text,
     response_text |-> ticket.m_responseText,
     ticket_last_update |-> ticket.m_lastUpdate]

\* GMTicket::DeleteFromDB: removes the row keyed by the ticket's guid.
DeleteFromDB(rows, ticket) ==
    SelectSeq(rows, LAMBDA r : r.guid # ticket.m_guid)

\* GMTicket::SaveToDB: one row per guid; saving again replaces the row.
SaveToDB(rows, ticket) ==
    IF \E i \in DOMAIN rows : rows[i].guid = ticket.m_guid
    THEN [i \in DOMAIN rows |->
            IF rows[i].guid = ticket.m_guid THEN RowOf(ticket) ELSE rows[i]]
    ELSE Append(rows, RowOf(ticket))

\* A statement given to the database, with the ticket whose values it was
\* formatted from.
Stmt(cmd, ticket) == [cmd |-> cmd, ticket |-> ticket]

\* The table after the database has executed a statement.
Apply(rows, stmt) ==
    IF stmt.cmd = "save" THEN SaveToDB(rows, stmt.ticket)
    ELSE IF stmt.cmd = "delete" THEN DeleteFromDB(rows, stmt.ticket)
    ELSE <<>>

RECURSIVE ApplyAll(_, _)
ApplyAll(rows, stmts) ==
    IF stmts = <<>> THEN rows
    ELSE ApplyAll(Apply(rows, Head(stmts)), Tail(stmts))

\* The statements recorded in dbCalls.
DeleteStmt(guid) == [cmd |-> "delete", guid |-> guid]
SaveStmt(guid) == [cmd |-> "save", guid |-> guid]
DeleteAllStmt == [cmd |-> "delete_all", guid |-> Empty]
StmtName(stmt) == [cmd |-> stmt.cmd, guid |-> stmt.ticket.m_guid]

----------------------------------------------------------------------------
(* The containers *)

EmptyMap == [g \in {} |-> NewTicket]

\* m_GMTicketMap[guid]: the ticket of guid, default-constructed when there is none.
MapSlot(map, guid) == IF guid \in DOMAIN map THEN map[guid] ELSE NewTicket

\* The map after the slot of guid has been given the value ticket.
MapPut(map, guid, ticket) ==
    [g \in DOMAIN map \cup {guid} |-> IF g = guid THEN ticket ELSE map[g]]

\* MapErase with the erase left out: the entry stays.
MapEraseNothing(map, guid) == map

\* m_GMTicketMap.erase(itr)
MapErase(map, guid) == [g \in DOMAIN map \ {guid} |-> map[g]]

\* std::list::remove: removes every element equal to ptr.
ListRemove(list, ptr) == SelectSeq(list, LAMBDA p : p # ptr)

\* PushBack written as push_front.
PushFront(list, ptr) == <<ptr>> \o list

\* m_GMTicketListByCreatingOrder.push_back(&ticket)
PushBack(list, ptr) == Append(list, ptr)

\* if (ticket.GetPlayerGuid()): the slot holds an initialised ticket.
IsOverwrite(ticket) == ticket.m_guid # Empty

----------------------------------------------------------------------------
(* History of the creates *)

\* The ranks 1..n of the guids in S, in the order r gives them.
Compress(r, S) == [g \in S |-> Cardinality({h \in S : r[h] <= r[g]})]

RankCreate(r, guid) ==
    LET others == DOMAIN r \ {guid}
        c == Compress(r, others)
    IN  [g \in others \cup {guid} |->
            IF g = guid THEN Cardinality(others) + 1 ELSE c[g]]

RankDelete(r, guid) == Compress(r, DOMAIN r \ {guid})

----------------------------------------------------------------------------
(* GMTicketMgr: lookups *)

\* GMTicketMgr::GetGMTicket: the ticket's address, or NULL.
GetGMTicket(guid) == IF guid \notin DOMAIN m_GMTicketMap THEN NULL ELSE guid

\* GMTicketMgr::GetTicketCount
GetTicketCount == Cardinality(DOMAIN m_GMTicketMap)

\* std::advance(itr, pos) from begin() with pos beyond the size of the list,
\* and the test and dereference that follow: incrementing the iterator past
\* end() is undefined. The list is circular through its end() node, so an
\* unchecked build walks on from end() to the first element and arrives at the
\* offset pos modulo size + 1, which is end() again (NULL is returned) or an
\* element; a build with checked iterators aborts at the increment.
AdvancePastEnd(list, pos) ==
    LET k == pos % (Len(list) + 1)
    IN  {IF k = Len(list) THEN NULL ELSE list[k + 1], Aborted}

\* GetGMTicketByOrderPos with pos > GetTicketCount() for pos >= GetTicketCount().
GetGMTicketByOrderPosGT(pos) ==
    IF pos > GetTicketCount THEN {NULL}
    ELSE IF pos = Len(m_GMTicketListByCreatingOrder) THEN {NULL}
    ELSE IF pos > Len(m_GMTicketListByCreatingOrder)
         THEN AdvancePastEnd(m_GMTicketListByCreatingOrder, pos)
    ELSE {m_GMTicketListByCreatingOrder[pos + 1]}

\* GMTicketMgr::GetGMTicketByOrderPos: the outcomes the call can have, one
\* where its behaviour is defined.
GetGMTicketByOrderPos(pos) ==
    IF pos >= GetTicketCount THEN {NULL}
    ELSE IF pos = Len(m_GMTicketListByCreatingOrder) THEN {NULL}
    ELSE IF pos > Len(m_GMTicketListByCreatingOrder)
         THEN AdvancePastEnd(m_GMTicketListByCreatingOrder, pos)
    ELSE {m_GMTicketListByCreatingOrder[pos + 1]}

\* The ticket a non-null address points to.
Deref(ptr) == m_GMTicketMap[ptr]

----------------------------------------------------------------------------
(* GMTicketMgr: the state after construction, and the operations *)

Call(op, guid, text) == [op |-> op, guid |-> guid, text |-> text]

\* What a call returns: nothing (void), a GMTicket*, a size_t or a bool.
Void == [kind |-> "void", val |-> 0]
Ptr(p) == [kind |-> "ptr", val |-> p]
Size(n) == [kind |-> "size", val |-> n]
Bool(b) == [kind |-> "bool", val |-> IF b THEN 1 ELSE 0]
\* The call left by an exception.
Thrown == [kind |-> "throw", val |-> 0]
\* The call does not return: the process was aborted.
Abort == [kind |-> "abort", val |-> 0]

\* The registry after construction, the table empty.
InitRegistry ==
    /\ m_TicketSystemOn = TRUE
    /\ m_GMTicketMap = EmptyMap
    /\ m_GMTicketListByCreatingOrder = <<>>
    /\ now = 1
    /\ lastCall = Call("none", Empty, "")
    /\ dbCalls = <<>>
    /\ createRank = [g \in {} |-> 0]
    /\ returned = Void
    /\ storeUp = TRUE
    /\ queue = <<>>
    /\ online = {}
    /\ sent = <<>>

Init ==
    /\ InitRegistry
    /\ db = <<>>
    /\ asyncStore = FALSE

\* The statements of a call are given to the database: queued by a client that
\* queues, executed at once otherwise, and lost when the database is down.
Execute(stmts) ==
    /\ dbCalls' = [i \in DOMAIN stmts |-> StmtName(stmts[i])]
    /\ IF asyncStore
       THEN /\ Len(queue) + Len(stmts) <= MaxQueue
            /\ queue' = queue \o stmts
            /\ db' = db
       ELSE /\ queue' = queue
            /\ db' = IF storeUp THEN ApplyAll(db, stmts) ELSE db

\* The time of a ticket that was never updated, for time(NULL).
TimeUnset == NewTicket.m_lastUpdate

\* time(NULL) as Create passes it to Init.
TimeOfCreate == now

\* The statements of a Create, in the order it calls DeleteFromDB and SaveToDB.
CreateStmts(overwrite, old, new) ==
    (IF overwrite THEN <<Stmt("delete", old)>> ELSE <<>>) \o <<Stmt("save", new)>>

\* Create that returns at once while tickets are not accepted.
CreateIfAccepting(guid, text) ==
    LET ticket == MapSlot(m_GMTicketMap, guid)
        overwrite == IsOverwrite(ticket)
        list1 == IF overwrite
                 THEN ListRemove(m_GMTicketListByCreatingOrder, guid)
                 ELSE m_GMTicketListByCreatingOrder
        inited == TicketInit(guid, text, "", TimeOfCreate)
    IN  /\ Len(list1) < MaxLen
        /\ lastCall' = Call("Create", guid, text)
        /\ returned' = Void
        /\ IF m_TicketSystemOn
           THEN /\ m_GMTicketMap' = MapPut(m_GMTicketMap, guid, inited)
                /\ Execute(CreateStmts(overwrite, ticket, inited))
                /\ m_GMTicketListByCreatingOrder' = PushBack(list1, guid)
                /\ createRank' = RankCreate(createRank, guid)
           ELSE /\ Execute(<<>>)
                /\ UNCHANGED <<m_GMTicketMap, m_GMTicketListByCreatingOrder, createRank>>
        /\ UNCHANGED <<m_TicketSystemOn, env>>

\* GMTicketMgr::Create
Create(guid, text) ==
    LET ticket == MapSlot(m_GMTicketMap, guid)
        overwrite == IsOverwrite(ticket)
        list1 == IF overwrite
                 THEN ListRemove(m_GMTicketListByCreatingOrder, guid)
                 ELSE m_GMTicketListByCreatingOrder
        inited == TicketInit(guid, text, "", TimeOfCreate)
    IN  IF text = NullText
        THEN \* Making the std::string argument of Init from the null pointer is
             \* undefined; the builds throw std::logic_error there, after the
             \* slot was made and an overwritten ticket lost its row and its
             \* place in the list, and before Init, SaveToDB and push_back.
             /\ m_GMTicketMap' = MapPut(m_GMTicketMap, guid, ticket)
             /\ Execute(IF overwrite THEN <<Stmt("delete", ticket)>> ELSE <<>>)
             /\ m_GMTicketListByCreatingOrder' = list1
             /\ lastCall' = Call("Create", guid, text)
             /\ returned' = Thrown
             /\ createRank' = IF overwrite THEN RankDelete(createRank, guid)
                                            ELSE createRank
             /\ UNCHANGED <<m_TicketSystemOn, env>>
        ELSE /\ Len(list1) < MaxLen
             /\ m_GMTicketMap' = MapPut(m_GMTicketMap, guid, inited)
             /\ Execute(CreateStmts(overwrite, ticket, inited))
             /\ m_GMTicketListByCreatingOrder' = PushBack(list1, guid)
             /\ lastCall' = Call("Create", guid, text)
             /\ returned' = Void
             /\ createRank' = RankCreate(createRank, guid)
             /\ UNCHANGED <<m_TicketSystemOn, env>>

\* Delete without its call of DeleteFromDB: the row is left in the table.
DeleteNoDB(guid) ==
    /\ lastCall' = Call("Delete", guid, "")
    /\ createRank' = RankDelete(createRank, guid)
    /\ IF guid \notin DOMAIN m_GMTicketMap
       THEN /\ Execute(<<>>)
            /\ UNCHANGED <<m_GMTicketMap, m_GMTicketListByCreatingOrder>>
       ELSE /\ Execute(<<>>)
            /\ m_GMTicketListByCreatingOrder' =
                    ListRemove(m_GMTicketListByCreatingOrder, guid)
            /\ m_GMTicketMap' = MapErase(m_GMTicketMap, guid)
    /\ returned' = Void
    /\ UNCHANGED <<m_TicketSystemOn, env>>

\* Delete with DeleteFromDB called before the result of find is tested.
DeleteUnchecked(guid) ==
    /\ lastCall' = Call("Delete", guid, "")
    /\ createRank' = RankDelete(createRank, guid)
    /\ Execute(<<Stmt("delete", MapSlot(m_GMTicketMap, guid))>>)
    /\ IF guid \notin DOMAIN m_GMTicketMap
       THEN UNCHANGED <<m_GMTicketMap, m_GMTicketListByCreatingOrder>>
       ELSE /\ m_GMTicketListByCreatingOrder' =
                    ListRemove(m_GMTicketListByCreatingOrder, guid)
            /\ m_GMTicketMap' = MapErase(m_GMTicketMap, guid)
    /\ returned' = Void
    /\ UNCHANGED <<m_TicketSystemOn, env>>

\* GMTicketMgr::Delete
Delete(guid) ==
    /\ lastCall' = Call("Delete", guid, "")
    /\ createRank' = RankDelete(createRank, guid)
    /\ IF guid \notin DOMAIN m_GMTicketMap
       THEN /\ Execute(<<>>)
            /\ UNCHANGED <<m_GMTicketMap, m_GMTicketListByCreatingOrder>>
       ELSE /\ Execute(<<Stmt("delete", m_GMTicketMap[guid])>>)
            /\ m_GMTicketListByCreatingOrder' =
                    ListRemove(m_GMTicketListByCreatingOrder, guid)
            /\ m_GMTicketMap' = MapErase(m_GMTicketMap, guid)
    /\ returned' = Void
    /\ UNCHANGED <<m_TicketSystemOn, env>>

\* DeleteAll without m_GMTicketListByCreatingOrder.clear().
DeleteAllKeepsList ==
    /\ Execute(<<Stmt("delete_all", NewTicket)>>)
    /\ m_GMTicketListByCreatingOrder' = m_GMTicketListByCreatingOrder
    /\ m_GMTicketMap' = EmptyMap
    /\ lastCall' = Call("DeleteAll", Empty, "")
    /\ returned' = Void
    /\ createRank' = [g \in {} |-> 0]
    /\ UNCHANGED <<m_TicketSystemOn, env>>

\* GMTicketMgr::DeleteAll: one bulk delete, and both containers cleared.
DeleteAll ==
    /\ Execute(<<Stmt("delete_all", NewTicket)>>)
    /\ m_GMTicketListByCreatingOrder' = <<>>
    /\ m_GMTicketMap' = EmptyMap
    /\ lastCall' = Call("DeleteAll", Empty, "")
    /\ returned' = Void
    /\ createRank' = [g \in {} |-> 0]
    /\ UNCHANGED <<m_TicketSystemOn, env>>

\* A guid column that is empty or is not the guid of a player.
BadOwner(guid) == guid \in {Empty, Malformed}

\* LoadRows that stops reading at the first row it cannot use.
RECURSIVE LoadRowsStops(_, _, _)
LoadRowsStops(rows, map, list) ==
    IF rows = <<>> THEN [map |-> map, list |-> list]
    ELSE LET r == Head(rows)
         IN  IF BadOwner(r.guid)
             THEN [map |-> map, list |-> list]
             ELSE LoadRowsStops(Tail(rows),
                                MapPut(map, r.guid,
                                       TicketInit(r.guid, r.ticket_text, r.response_text,
                                                  r.ticket_last_update)),
                                PushBack(list, r.guid))

\* The containers after the rows have been read in their stored order: a row
\* with an empty or malformed guid is skipped, every other row becomes a ticket
\* of both.
RECURSIVE LoadRows(_, _, _)
LoadRows(rows, map, list) ==
    IF rows = <<>> THEN [map |-> map, list |-> list]
    ELSE LET r == Head(rows)
         IN  IF BadOwner(r.guid)
             THEN LoadRows(Tail(rows), map, list)
             ELSE LoadRows(Tail(rows),
                           MapPut(map, r.guid,
                                  TicketInit(r.guid, r.ticket_text, r.response_text,
                                             r.ticket_last_update)),
                           PushBack(list, r.guid))

\* The server restarts: a new GMTicketMgr() and its GMTicketMgr::LoadGMTickets.
LoadGMTickets ==
    LET loaded == LoadRows(db, EmptyMap, <<>>)
    IN  /\ m_TicketSystemOn' = TRUE
        /\ m_GMTicketMap' = loaded.map
        /\ m_GMTicketListByCreatingOrder' = loaded.list
        /\ dbCalls' = <<>>
        /\ lastCall' = Call("LoadGMTickets", Empty, "")
        /\ returned' = Void
        /\ UNCHANGED <<db, createRank, queue, env>>

\* GMTicket::SetResponseText on the ticket GetGMTicket(guid) returns: replaces
\* the response and sets the time of the last update; nothing is saved.
SetResponseText(guid, text) ==
    /\ GetGMTicket(guid) # NULL
    /\ m_GMTicketMap' =
            [m_GMTicketMap EXCEPT ![guid].m_responseText = text,
                                  ![guid].m_lastUpdate = now]
    /\ dbCalls' = <<>>
    /\ lastCall' = Call("SetResponseText", guid, text)
    /\ returned' = Void
    /\ UNCHANGED <<m_TicketSystemOn, m_GMTicketListByCreatingOrder, db, createRank,
                   queue, env>>

\* SetText that also saves the ticket.
SetTextSaves(guid, text) ==
    /\ GetGMTicket(guid) # NULL
    /\ m_GMTicketMap' =
            [m_GMTicketMap EXCEPT ![guid].m_text = text,
                                  ![guid].m_lastUpdate = now]
    /\ Execute(<<Stmt("save", m_GMTicketMap'[guid])>>)
    /\ lastCall' = Call("SetText", guid, text)
    /\ returned' = Void
    /\ UNCHANGED <<m_TicketSystemOn, m_GMTicketListByCreatingOrder, createRank, env>>

\* GMTicket::SetText on the ticket GetGMTicket(guid) returns: replaces the text
\* and sets the time of the last update; nothing is saved.
SetText(guid, text) ==
    /\ GetGMTicket(guid) # NULL
    /\ m_GMTicketMap' =
            [m_GMTicketMap EXCEPT ![guid].m_text = text,
                                  ![guid].m_lastUpdate = now]
    /\ dbCalls' = <<>>
    /\ lastCall' = Call("SetText", guid, text)
    /\ returned' = Void
    /\ UNCHANGED <<m_TicketSystemOn, m_GMTicketListByCreatingOrder, db, createRank,
                   queue, env>>

\* GMTicket::SaveToDB on the ticket GetGMTicket(guid) returns.
SaveTicket(guid) ==
    /\ GetGMTicket(guid) # NULL
    /\ Execute(<<Stmt("save", m_GMTicketMap[guid])>>)
    /\ lastCall' = Call("SaveToDB", guid, "")
    /\ returned' = Void
    /\ UNCHANGED <<m_TicketSystemOn, m_GMTicketMap, m_GMTicketListByCreatingOrder,
                   createRank, env>>

\* GMTicket::Init called by a holder of the pointer GetGMTicket(guid) returns:
\* the fields of the ticket are replaced; the containers and the table are not
\* touched.
CallInit(guid, owner, text) ==
    /\ GetGMTicket(guid) # NULL
    /\ m_GMTicketMap' = [m_GMTicketMap EXCEPT ![guid] = TicketInit(owner, text, "", now)]
    /\ dbCalls' = <<>>
    /\ lastCall' = Call("Init", guid, text)
    /\ returned' = Void
    /\ UNCHANGED <<m_TicketSystemOn, m_GMTicketListByCreatingOrder, db, createRank,
                   queue, env>>

\* GMTicket::DeleteFromDB called by a holder of the pointer GetGMTicket(guid)
\* returns: the row of the ticket's player is deleted; the registry is not
\* touched.
CallDeleteFromDB(guid) ==
    /\ GetGMTicket(guid) # NULL
    /\ Execute(<<Stmt("delete", m_GMTicketMap[guid])>>)
    /\ lastCall' = Call("DeleteFromDB", guid, "")
    /\ returned' = Void
    /\ UNCHANGED <<m_TicketSystemOn, m_GMTicketMap, m_GMTicketListByCreatingOrder,
                   createRank, env>>

\* SetAcceptTickets that leaves the flag as it is.
SetAcceptTicketsIgnored(accept) ==
    /\ m_TicketSystemOn' = m_TicketSystemOn
    /\ dbCalls' = <<>>
    /\ lastCall' = Call("SetAcceptTickets", Empty, IF accept THEN "on" ELSE "off")
    /\ returned' = Void
    /\ UNCHANGED <<m_GMTicketMap, m_GMTicketListByCreatingOrder, db, createRank,
                   queue, env>>

\* GMTicketMgr::SetAcceptTickets
SetAcceptTickets(accept) ==
    /\ m_TicketSystemOn' = accept
    /\ dbCalls' = <<>>
    /\ lastCall' = Call("SetAcceptTickets", Empty, IF accept THEN "on" ELSE "off")
    /\ returned' = Void
    /\ UNCHANGED <<m_GMTicketMap, m_GMTicketListByCreatingOrder, db, createRank,
                   queue, env>>

\* GMTicketMgr::WillAcceptTickets
WillAcceptTickets == m_TicketSystemOn

\* What a call that only reads leaves alone.
ReadOnly ==
    UNCHANGED <<m_TicketSystemOn, m_GMTicketMap, m_GMTicketListByCreatingOrder, db,
                createRank, queue, env>>

\* A call of GetGMTicket written with m_GMTicketMap[guid] for find(guid): the
\* map gets a default-constructed ticket for a guid that has none.
CallGetGMTicketIndexed(guid) ==
    /\ m_GMTicketMap' = MapPut(m_GMTicketMap, guid, MapSlot(m_GMTicketMap, guid))
    /\ returned' = Ptr(guid)
    /\ dbCalls' = <<>>
    /\ lastCall' = Call("GetGMTicket", guid, "")
    /\ UNCHANGED <<m_TicketSystemOn, m_GMTicketListByCreatingOrder, db, createRank,
                   queue, env>>

\* A call of GMTicketMgr::GetGMTicket
CallGetGMTicket(guid) ==
    /\ returned' = Ptr(GetGMTicket(guid))
    /\ dbCalls' = <<>>
    /\ lastCall' = Call("GetGMTicket", guid, "")
    /\ ReadOnly

\* A call of GMTicketMgr::GetTicketCount
CallGetTicketCount ==
    /\ returned' = Size(GetTicketCount)
    /\ dbCalls' = <<>>
    /\ lastCall' = Call("GetTicketCount", Empty, "")
    /\ ReadOnly

\* A call of GMTicketMgr::GetGMTicketByOrderPos
CallGetGMTicketByOrderPos(pos) ==
    /\ \E outcome \in GetGMTicketByOrderPos(pos) :
          returned' = IF outcome = Aborted THEN Abort ELSE Ptr(outcome)
    /\ dbCalls' = <<>>
    /\ lastCall' = Call("GetGMTicketByOrderPos", pos, "")
    /\ ReadOnly

\* A call of GMTicketMgr::WillAcceptTickets
CallWillAcceptTickets ==
    /\ returned' = Bool(WillAcceptTickets)
    /\ dbCalls' = <<>>
    /\ lastCall' = Call("WillAcceptTickets", Empty, "")
    /\ ReadOnly

\* The packet SendGMTicketStatusUpdate sends to the session of a player.
Packet(guid, statusCode) == [to |-> guid, status |-> statusCode]

\* GMTicket::_Close on the ticket GetGMTicket(guid) returns: the status goes to
\* the session of the ticket's player if the player has one; the ticket, the
\* registry and the table are left alone.
TicketClose(guid, op, statusCode) ==
    /\ GetGMTicket(guid) # NULL
    /\ sent' = IF m_GMTicketMap[guid].m_guid \in online
               THEN <<Packet(m_GMTicketMap[guid].m_guid, statusCode)>>
               ELSE <<>>
    /\ dbCalls' = <<>>
    /\ lastCall' = Call(op, guid, "")
    /\ returned' = Void
    /\ UNCHANGED <<m_TicketSystemOn, m_GMTicketMap, m_GMTicketListByCreatingOrder, db,
                   createRank, queue, now, storeUp, asyncStore, online>>

\* Close that also takes the ticket out of the registry and the table.
CloseRemoves(guid) ==
    /\ GetGMTicket(guid) # NULL
    /\ sent' = IF m_GMTicketMap[guid].m_guid \in online
               THEN <<Packet(m_GMTicketMap[guid].m_guid, "close")>>
               ELSE <<>>
    /\ Execute(<<Stmt("delete", m_GMTicketMap[guid])>>)
    /\ m_GMTicketListByCreatingOrder' = ListRemove(m_GMTicketListByCreatingOrder, guid)
    /\ m_GMTicketMap' = MapErase(m_GMTicketMap, guid)
    /\ lastCall' = Call("Close", guid, "")
    /\ returned' = Void
    /\ UNCHANGED <<m_TicketSystemOn, createRank, now, storeUp, asyncStore, online>>

\* GMTicket::Close
Close(guid) == TicketClose(guid, "Close", "close")

\* GMTicket::CloseWithSurvey
CloseWithSurvey(guid) == TicketClose(guid, "CloseWithSurvey", "survey")

\* A player logs in or out.
Login(guid) ==
    /\ guid \notin online
    /\ online' = online \cup {guid}
    /\ UNCHANGED <<m_TicketSystemOn, m_GMTicketMap, m_GMTicketListByCreatingOrder, db,
                   lastCall, dbCalls, createRank, returned, queue, now, storeUp,
                   asyncStore, sent>>

Logout(guid) ==
    /\ guid \in online
    /\ online' = online \ {guid}
    /\ UNCHANGED <<m_TicketSystemOn, m_GMTicketMap, m_GMTicketListByCreatingOrder, db,
                   lastCall, dbCalls, createRank, returned, queue, now, storeUp,
                   asyncStore, sent>>

\* The database goes down, and comes back.
StoreFails ==
    /\ storeUp
    /\ storeUp' = FALSE
    /\ UNCHANGED <<m_TicketSystemOn, m_GMTicketMap, m_GMTicketListByCreatingOrder, db,
                   lastCall, dbCalls, createRank, returned, queue, now, asyncStore,
                   online, sent>>

StoreRecovers ==
    /\ ~storeUp
    /\ storeUp' = TRUE
    /\ UNCHANGED <<m_TicketSystemOn, m_GMTicketMap, m_GMTicketListByCreatingOrder, db,
                   lastCall, dbCalls, createRank, returned, queue, now, asyncStore,
                   online, sent>>

\* The guid a queued statement is about.
OwnerOf(stmt) == stmt.ticket.m_guid

\* The worker of a client that queues may execute any queued statement.
EligibleAny(i) == i \in DOMAIN queue

\* The worker of a client that queues may execute a queued statement when no
\* statement about the same guid was queued before it.
Eligible(i) ==
    /\ i \in DOMAIN queue
    /\ \A j \in 1..(i - 1) : OwnerOf(queue[j]) # OwnerOf(queue[i])

\* The sequence without its i-th element.
RemoveAt(seq, i) == SubSeq(seq, 1, i - 1) \o SubSeq(seq, i + 1, Len(seq))

\* The worker executes one queued statement.
ExecuteQueued(i) ==
    /\ Eligible(i)
    /\ db' = IF storeUp THEN Apply(db, queue[i]) ELSE db
    /\ queue' = RemoveAt(queue, i)
    /\ UNCHANGED <<m_TicketSystemOn, m_GMTicketMap, m_GMTicketListByCreatingOrder,
                   lastCall, dbCalls, createRank, returned, now, storeUp, asyncStore,
                   online, sent>>

\* A second passes.
Tick ==
    /\ now < MaxTime
    /\ now' = now + 1
    /\ UNCHANGED <<m_TicketSystemOn, m_GMTicketMap, m_GMTicketListByCreatingOrder, db,
                   lastCall, dbCalls, createRank, returned, storeUp, asyncStore,
                   queue, online, sent>>

----------------------------------------------------------------------------
(* Specifications *)

\* Create, Delete and DeleteAll with the guids of G.
RegistryOps(G) ==
    \/ \E guid \in G, text \in Texts : Create(guid, text)
    \/ \E guid \in G : Delete(guid)
    \/ DeleteAll

\* SetResponseText on the tickets of the guids of G.
TicketOps(G) ==
    \E guid \in G, text \in Responses : SetResponseText(guid, text)

\* Every guid, the empty one included, and restarts.
Next == RegistryOps(ObjectGuids) \/ LoadGMTickets
Spec == Init /\ [][Next]_vars

\* Every guid, one process lifetime.
NextOps == RegistryOps(ObjectGuids)
SpecOps == Init /\ [][NextOps]_vars

\* The guids of players only, and restarts.
NextNE == RegistryOps(Players) \/ LoadGMTickets
SpecNE == Init /\ [][NextNE]_vars

\* The guids of players only, one process lifetime, with the clock running and
\* responses being set.
NextTimed == RegistryOps(Players) \/ TicketOps(Players) \/ Tick
SpecTimed == Init /\ [][NextTimed]_vars

\* One process lifetime in which tickets are created, edited, saved and
\* deleted while the clock runs.
NextText ==
    \/ \E guid \in Authors, text \in Texts : Create(guid, text)
    \/ \E guid \in Authors : Delete(guid)
    \/ \E guid \in Authors, text \in Texts : SetText(guid, text)
    \/ \E guid \in Authors : SaveTicket(guid)
    \/ Tick
SpecText == Init /\ [][NextText]_vars

\* Every guid, one process lifetime, with the flag being set.
NextAccept ==
    \/ RegistryOps(ObjectGuids)
    \/ \E accept \in BOOLEAN : SetAcceptTickets(accept)
SpecAccept == Init /\ [][NextAccept]_vars

\* One process lifetime in which players log in and out and tickets are
\* created, closed and deleted.
NextClose ==
    \/ \E guid \in Authors, text \in Texts : Create(guid, text)
    \/ \E guid \in Authors : Delete(guid)
    \/ \E guid \in Authors : Close(guid)
    \/ \E guid \in Authors : CloseWithSurvey(guid)
    \/ \E guid \in Authors : Login(guid)
    \/ \E guid \in Authors : Logout(guid)
SpecClose == Init /\ [][NextClose]_vars

\* One process lifetime with a database that goes down and comes back.
NextFail ==
    \/ RegistryOps(Authors)
    \/ StoreFails
    \/ StoreRecovers
SpecFail == Init /\ [][NextFail]_vars

\* One process lifetime with a client that queues the statements and a worker
\* that executes them, in the order they were queued for each guid.
InitAsync ==
    /\ InitRegistry
    /\ db = <<>>
    /\ asyncStore = TRUE

NextAsync ==
    \/ \E guid \in Authors, text \in Texts : Create(guid, text)
    \/ \E guid \in Authors : Delete(guid)
    \/ \E i \in 1..MaxQueue : ExecuteQueued(i)
SpecAsync == InitAsync /\ [][NextAsync]_vars

\* The rows a table found at startup may hold: the guid column is the primary
\* key, and may be empty or malformed.
StoredRows ==
    [guid : Authors \cup {Empty, Malformed}, ticket_text : Texts,
     response_text : {""}, ticket_last_update : {1}]

StoredTables ==
    {t \in UNION {[1..n -> StoredRows] : n \in 0..MaxRows} :
        \A i, j \in DOMAIN t : t[i].guid = t[j].guid => i = j}

\* The server starts on any such table and loads it.
InitLoad ==
    /\ InitRegistry
    /\ db \in StoredTables
    /\ asyncStore = FALSE

NextLoad == LoadGMTickets
SpecLoad == InitLoad /\ [][NextLoad]_vars

\* One process lifetime with the calls that read the registry.
NextLookup ==
    \/ RegistryOps(Authors)
    \/ \E accept \in BOOLEAN : SetAcceptTickets(accept)
    \/ \E guid \in ObjectGuids : CallGetGMTicket(guid)
    \/ CallGetTicketCount
    \/ \E pos \in Positions : CallGetGMTicketByOrderPos(pos)
    \/ CallWillAcceptTickets
SpecLookup == Init /\ [][NextLookup]_vars

\* One process lifetime in which Create is also called with the null pointer
\* for text, with the calls that read the registry.
NextNull ==
    \/ \E guid \in Players, text \in TextArgs : Create(guid, text)
    \/ \E guid \in Players : Delete(guid)
    \/ DeleteAll
    \/ \E guid \in Players : CallGetGMTicket(guid)
    \/ CallGetTicketCount
    \/ \E pos \in Positions : CallGetGMTicketByOrderPos(pos)
SpecNull == Init /\ [][NextNull]_vars

\* One process lifetime in which the holders of the pointers the lookups
\* return call the public operations of GMTicket on them.
NextHandle ==
    \/ \E guid \in Authors, text \in Texts : Create(guid, text)
    \/ \E guid \in Authors : Delete(guid)
    \/ \E guid \in Authors, owner \in {Empty} \cup Authors, text \in Texts :
          CallInit(guid, owner, text)
    \/ \E guid \in Authors : CallDeleteFromDB(guid)
    \/ \E guid \in Authors : SaveTicket(guid)
SpecHandle == Init /\ [][NextHandle]_vars

----------------------------------------------------------------------------
(* Properties *)

\* The guids of the tickets the creating-order list points to, in its order.
OrderOwners ==
    [i \in DOMAIN m_GMTicketListByCreatingOrder |->
        Deref(m_GMTicketListByCreatingOrder[i]).m_guid]

\* C1: index consistency: GetTicketCount() is the length of the creating-order
\* list and the size of the map, and every position below the count resolves to
\* a ticket whose guid is a key of the map and which is the ticket GetGMTicket
\* returns for that guid.
C1_IndexConsistency ==
    /\ GetTicketCount = Len(m_GMTicketListByCreatingOrder)
    /\ GetTicketCount = Cardinality(DOMAIN m_GMTicketMap)
    /\ \A pos \in Positions :
          pos < GetTicketCount =>
             \A ptr \in GetGMTicketByOrderPos(pos) :
                /\ ptr \in DOMAIN m_GMTicketMap
                /\ Deref(ptr).m_guid \in DOMAIN m_GMTicketMap
                /\ GetGMTicket(Deref(ptr).m_guid) = ptr

\* C2: uniqueness per owner: no guid is the owner of two entries of the
\* creating-order list (the keys of the map are unique by construction).
C2_UniquePerOwner ==
    \A i, j \in DOMAIN m_GMTicketListByCreatingOrder :
        i # j => OrderOwners[i] # OrderOwners[j]

\* C3: no ticket of the map, and no ticket the creating-order list points to,
\* has the empty guid as its owner.
C3_OwnerNonEmpty ==
    /\ \A g \in DOMAIN m_GMTicketMap : m_GMTicketMap[g].m_guid # Empty
    /\ \A i \in DOMAIN m_GMTicketListByCreatingOrder : OrderOwners[i] # Empty

\* C4: insertion order, for the guids of players: the creating-order list
\* holds exactly the guids that have a ticket, each once, earliest most recent
\* Create first.
C4_InsertionOrder ==
    /\ DOMAIN createRank = DOMAIN m_GMTicketMap
    /\ {OrderOwners[i] : i \in DOMAIN OrderOwners} = DOMAIN m_GMTicketMap
    /\ Len(m_GMTicketListByCreatingOrder) = Cardinality(DOMAIN m_GMTicketMap)
    /\ \A i, j \in DOMAIN OrderOwners :
          i < j => createRank[OrderOwners[i]] < createRank[OrderOwners[j]]

\* Create(1), Create(2), Create(3) have put 1, 2, 3 at the positions 0, 1, 2.
C4_Witness ==
    /\ createRank = [g \in 1..3 |-> g]
    /\ GetGMTicketByOrderPos(0) = {1}
    /\ GetGMTicketByOrderPos(1) = {2}
    /\ GetGMTicketByOrderPos(2) = {3}
    /\ lastCall.op = "Create"

\* list without the elements equal to ptr, the others in their order.
Without(list, ptr) == SelectSeq(list, LAMBDA p : p # ptr)

\* A Create for a guid of G that has a ticket replaces it: the count is
\* unchanged, the ticket has the new text, no response and the current time,
\* the guid is listed at the tail only and the others keep their order.
CreateReplaces(G) ==
    \A guid \in G, text \in Texts :
        (Create(guid, text) /\ guid \in DOMAIN m_GMTicketMap) =>
            /\ GetTicketCount' = GetTicketCount
            /\ m_GMTicketMap'[guid].m_text = text
            /\ m_GMTicketMap'[guid].m_responseText = ""
            /\ m_GMTicketMap'[guid].m_lastUpdate = now'
            /\ Without(m_GMTicketListByCreatingOrder', guid) \o <<guid>>
                  = m_GMTicketListByCreatingOrder'
            /\ Without(m_GMTicketListByCreatingOrder', guid)
                  = Without(m_GMTicketListByCreatingOrder, guid)

\* C5: Create replaces, for every guid that has a ticket.
C5_CreateReplaces == [][CreateReplaces(ObjectGuids)]_vars

\* Create replaces, for every player's guid that has a ticket.
CreateReplacesPlayers == [][CreateReplaces(Players)]_vars

\* C6: Delete of a guid that has a ticket removes it from both containers:
\* GetGMTicket finds nothing, no list element and no position resolves to it,
\* the count is one less and the other elements keep their order.
C6_DeleteRemoves ==
    [][\A guid \in ObjectGuids :
          (Delete(guid) /\ guid \in DOMAIN m_GMTicketMap) =>
              /\ GetGMTicket(guid)' = NULL
              /\ \A i \in DOMAIN m_GMTicketListByCreatingOrder' :
                    m_GMTicketListByCreatingOrder'[i] # guid
              /\ \A pos \in Positions : guid \notin GetGMTicketByOrderPos(pos)'
              /\ GetTicketCount' = GetTicketCount - 1
              /\ m_GMTicketListByCreatingOrder'
                    = Without(m_GMTicketListByCreatingOrder, guid)]_vars

\* Delete(2) has removed the ticket between those of 1 and 3.
C6_Witness ==
    /\ lastCall = Call("Delete", 2, "")
    /\ dbCalls = <<DeleteStmt(2)>>
    /\ m_GMTicketListByCreatingOrder = <<1, 3>>
    /\ GetGMTicket(2) = NULL

\* A restart leaves the tickets (owner and text) and the creating order as
\* they were.
ReloadRoundTrip ==
    LoadGMTickets =>
        /\ m_GMTicketListByCreatingOrder' = m_GMTicketListByCreatingOrder
        /\ DOMAIN m_GMTicketMap' = DOMAIN m_GMTicketMap
        /\ \A g \in DOMAIN m_GMTicketMap :
              /\ g \in DOMAIN m_GMTicketMap'
              /\ m_GMTicketMap'[g].m_guid = m_GMTicketMap[g].m_guid
              /\ m_GMTicketMap'[g].m_text = m_GMTicketMap[g].m_text

\* C7: persistence round trip: after creates and deletes, a new manager that
\* loads from the same table has the same tickets and the same creating order.
C7_RoundTrip == [][ReloadRoundTrip]_vars

\* The rows of the table with the guid g.
RowsOf(g) == {i \in DOMAIN db : db[i].guid = g}

\* C8: the table mirrors the registry: one row for each guid that has a
\* ticket, none for any other, and after a Create the one row of its guid has
\* the text of the call.
C8_StoreMirrors ==
    /\ \A g \in ObjectGuids :
          Cardinality(RowsOf(g)) = IF g \in DOMAIN m_GMTicketMap THEN 1 ELSE 0
    /\ lastCall.op = "Create" =>
          \A i \in RowsOf(lastCall.guid) : db[i].ticket_text = lastCall.text

\* A replacing Create for 1 has left one row for 1, with the new text, while
\* 2 has no ticket after its Delete and 3 has one.
C8_Witness ==
    /\ lastCall = Call("Create", 1, "b")
    /\ dbCalls = <<DeleteStmt(1), SaveStmt(1)>>
    /\ DOMAIN m_GMTicketMap = {1, 3}
    /\ \E i \in DOMAIN db : db[i].guid = 1 /\ db[i].ticket_text = "b"

\* C9: GetGMTicketByOrderPos(pos) is NULL exactly when pos >= GetTicketCount(),
\* and is the element at offset pos of the creating-order list otherwise.
C9_ByOrderPos ==
    \A pos \in Positions :
        /\ (GetGMTicketByOrderPos(pos) = {NULL}) <=> (pos >= GetTicketCount)
        /\ pos < GetTicketCount =>
              /\ pos + 1 \in DOMAIN m_GMTicketListByCreatingOrder
              /\ GetGMTicketByOrderPos(pos) = {m_GMTicketListByCreatingOrder[pos + 1]}

\* Two tickets, the list longer than the count: the positions 0 and 1 resolve
\* and the position 2, an element of the list, does not.
C9_Witness ==
    /\ GetTicketCount = 2
    /\ Len(m_GMTicketListByCreatingOrder) > 2
    /\ GetGMTicketByOrderPos(0) = {m_GMTicketListByCreatingOrder[1]}
    /\ GetGMTicketByOrderPos(1) = {m_GMTicketListByCreatingOrder[2]}
    /\ GetGMTicketByOrderPos(2) = {NULL}

\* C10: Delete of a guid that has no ticket changes neither container, nor the
\* flag, nor the table, and executes no statement.
C10_DeleteAbsentNoOp ==
    [][\A guid \in ObjectGuids :
          (Delete(guid) /\ guid \notin DOMAIN m_GMTicketMap) =>
              /\ m_GMTicketMap' = m_GMTicketMap
              /\ m_GMTicketListByCreatingOrder' = m_GMTicketListByCreatingOrder
              /\ m_TicketSystemOn' = m_TicketSystemOn
              /\ db' = db
              /\ dbCalls' = <<>>]_vars

\* Delete(2) was called while only 1 and 3 had tickets.
C10_Witness ==
    /\ lastCall = Call("Delete", 2, "")
    /\ dbCalls = <<>>
    /\ DOMAIN m_GMTicketMap = {1, 3}
    /\ Len(db) = 2

\* The registry and the table.
registry == <<m_TicketSystemOn, m_GMTicketMap, m_GMTicketListByCreatingOrder, db>>

\* C11: DeleteAll leaves no ticket: the count is 0, the map, the list and the
\* table are empty; and a DeleteAll that follows a DeleteAll changes neither
\* the registry nor the table.
C11_DeleteAll ==
    [][DeleteAll =>
          /\ GetTicketCount' = 0
          /\ DOMAIN m_GMTicketMap' = {}
          /\ m_GMTicketListByCreatingOrder' = <<>>
          /\ \A pos \in Positions : GetGMTicketByOrderPos(pos)' = {NULL}
          /\ db' = <<>>
          /\ (lastCall.op = "DeleteAll" => registry' = registry)]_vars

\* DeleteAll has been called and nothing is left.
C11_Witness ==
    /\ lastCall.op = "DeleteAll"
    /\ dbCalls = <<DeleteAllStmt>>
    /\ GetTicketCount = 0
    /\ m_GMTicketListByCreatingOrder = <<>>
    /\ db = <<>>

\* C12: while a guid keeps a ticket, through SetText and Create, the time of
\* the ticket's last update does not decrease.
C12_LastUpdateMonotone ==
    [][\A g \in DOMAIN m_GMTicketMap \cap DOMAIN m_GMTicketMap' :
          m_GMTicketMap'[g].m_lastUpdate >= m_GMTicketMap[g].m_lastUpdate]_vars

\* The ticket of 1 was created at 1 and its text set at 2.
C12_Witness ==
    /\ lastCall = Call("SetText", 1, "b")
    /\ 1 \in DOMAIN m_GMTicketMap
    /\ m_GMTicketMap[1].m_lastUpdate = 2
    /\ \E i \in DOMAIN db : db[i].guid = 1 /\ db[i].ticket_last_update = 1

\* C16: SetText replaces the text and sets the time of the last update in
\* memory and leaves the table alone; SaveToDB makes the row of the ticket's
\* guid equal to the ticket, and it is the only row of that guid.
C16_SetTextNotSaved ==
    [][/\ \A guid \in Authors, text \in Texts :
             SetText(guid, text) =>
                /\ m_GMTicketMap'[guid].m_text = text
                /\ m_GMTicketMap'[guid].m_lastUpdate = now
                /\ db' = db
                /\ dbCalls' = <<>>
       /\ \A guid \in Authors :
             SaveTicket(guid) =>
                /\ Cardinality({i \in DOMAIN db' : db'[i].guid = guid}) = 1
                /\ \A i \in DOMAIN db' :
                      db'[i].guid = guid => db'[i] = RowOf(m_GMTicketMap'[guid])
                /\ \A i \in DOMAIN db :
                      db[i].guid # guid => i \in DOMAIN db' /\ db'[i] = db[i]]_vars

\* The text of the ticket of 1 is "b" since SetText at 2 and its row still has
\* the text "a" of the Create at 1.
C16_Witness ==
    /\ lastCall = Call("SetText", 1, "b")
    /\ DOMAIN m_GMTicketMap = {1, 2}
    /\ m_GMTicketMap[1].m_text = "b"
    /\ m_GMTicketMap[1].m_lastUpdate = 2
    /\ \E i \in DOMAIN db :
          db[i].guid = 1 /\ db[i].ticket_text = "a" /\ db[i].ticket_last_update = 1

\* C13: the flag is true after construction; SetAcceptTickets(accept) makes
\* WillAcceptTickets() return accept and changes no ticket, neither container
\* and not the table; Create, Delete and DeleteAll leave the flag alone.
C13_AcceptIsolation ==
    /\ WillAcceptTickets = TRUE
    /\ [][/\ \A accept \in BOOLEAN :
                SetAcceptTickets(accept) =>
                   /\ WillAcceptTickets' = accept
                   /\ m_GMTicketMap' = m_GMTicketMap
                   /\ m_GMTicketListByCreatingOrder' = m_GMTicketListByCreatingOrder
                   /\ db' = db
                   /\ dbCalls' = <<>>
          /\ lastCall'.op \in {"Create", "Delete", "DeleteAll"} =>
                WillAcceptTickets' = WillAcceptTickets]_vars

\* SetAcceptTickets(false) was called while 1 and 2 had tickets.
C13_Witness ==
    /\ lastCall = Call("SetAcceptTickets", Empty, "off")
    /\ WillAcceptTickets = FALSE
    /\ m_GMTicketListByCreatingOrder = <<1, 2>>
    /\ Len(db) = 2

\* C14: a Create while tickets are not accepted registers and saves the
\* ticket: the guid has the ticket of the call, it is the last of the list and
\* it has its row in the table.
C14_CreateIgnoresFlag ==
    [][\A guid \in ObjectGuids, text \in Texts :
          (Create(guid, text) /\ ~WillAcceptTickets) =>
              /\ GetGMTicket(guid)' = guid
              /\ m_GMTicketMap'[guid] = TicketInit(guid, text, "", now)
              /\ m_GMTicketListByCreatingOrder' # <<>>
              /\ m_GMTicketListByCreatingOrder'
                    [Len(m_GMTicketListByCreatingOrder')] = guid
              /\ \E i \in DOMAIN db' : db'[i] = RowOf(m_GMTicketMap'[guid])
              /\ dbCalls' # <<>>
              /\ dbCalls'[Len(dbCalls')] = SaveStmt(guid)
              /\ ~WillAcceptTickets']_vars

\* Create(1, "a") was called after SetAcceptTickets(false).
C14_Witness ==
    /\ lastCall = Call("Create", 1, "a")
    /\ WillAcceptTickets = FALSE
    /\ GetGMTicket(1) = 1
    /\ \E i \in DOMAIN db : db[i].guid = 1 /\ db[i].ticket_text = "a"

\* The packets a close of the ticket of guid sends: one with the status to
\* the session of the owner, none when the owner has no session.
CloseSends(guid, statusCode) ==
    IF guid \in online THEN sent' = <<Packet(guid, statusCode)>> ELSE sent' = <<>>

\* A step that changes no ticket, neither container and not the table, and
\* executes no statement.
RegistryKept ==
    /\ m_GMTicketMap' = m_GMTicketMap
    /\ m_GMTicketListByCreatingOrder' = m_GMTicketListByCreatingOrder
    /\ db' = db
    /\ dbCalls' = <<>>

\* C15: Close and CloseWithSurvey send one closed status, plain or survey, to
\* the session of the owner, or nothing when the owner has no session, and the
\* ticket stays registered with its fields, the list and the table unchanged.
C15_CloseIsNotification ==
    [][\A guid \in Authors :
          /\ Close(guid) =>
                CloseSends(guid, "close") /\ RegistryKept /\ GetGMTicket(guid)' = guid
          /\ CloseWithSurvey(guid) =>
                CloseSends(guid, "survey") /\ RegistryKept /\ GetGMTicket(guid)' = guid]_vars

\* Close on the ticket of 1, who has a session, has sent one plain status and
\* the ticket is still registered and saved.
C15_Witness ==
    /\ lastCall = Call("Close", 1, "")
    /\ sent = <<Packet(1, "close")>>
    /\ 1 \in online
    /\ GetGMTicket(1) = 1
    /\ \E i \in DOMAIN db : db[i].guid = 1

\* The registry after a Create, Delete or DeleteAll step is the one the call
\* gives when its statements are executed, whether they were executed or not.
NoRollback ==
    /\ \A guid \in Authors, text \in Texts :
          Create(guid, text) =>
             /\ m_GMTicketMap' = MapPut(m_GMTicketMap, guid, TicketInit(guid, text, "", now))
             /\ m_GMTicketListByCreatingOrder' =
                   PushBack(ListRemove(m_GMTicketListByCreatingOrder, guid), guid)
    /\ \A guid \in Authors :
          Delete(guid) =>
             /\ m_GMTicketMap' = MapErase(m_GMTicketMap, guid)
             /\ m_GMTicketListByCreatingOrder' = ListRemove(m_GMTicketListByCreatingOrder, guid)
    /\ DeleteAll =>
          /\ m_GMTicketMap' = EmptyMap
          /\ m_GMTicketListByCreatingOrder' = <<>>

\* A call that gave statements to a database that is down returns an error.
FailureReported ==
    (~storeUp /\ dbCalls' # <<>> /\ lastCall'.op \in {"Create", "Delete", "DeleteAll"})
       => returned'.kind = "error"

\* C17: when the database fails during Create, Delete or DeleteAll the
\* registry still ends as it would have had the database succeeded, and the
\* caller is given an error status.
C17_NoRollbackAndReported == [][NoRollback /\ FailureReported]_vars

\* The first half of C17 alone: the registry is not rolled back.
C17_NoRollbackOnly == [][NoRollback]_vars

\* A Create was called while the database was down: the ticket is registered
\* and the table has no row for it.
C17_FailedCreate ==
    /\ ~storeUp
    /\ lastCall.op = "Create"
    /\ GetGMTicket(lastCall.guid) # NULL
    /\ \A i \in DOMAIN db : db[i].guid # lastCall.guid

\* The statements Create and Delete give to the database, in order: a Create
\* that replaces a ticket deletes the row and then saves, a Create of a first
\* ticket saves, a Delete of a ticket deletes the row; they join the queue in
\* that order.
IssueOrder ==
    /\ \A guid \in Authors, text \in Texts :
          Create(guid, text) =>
             /\ dbCalls' = IF GetGMTicket(guid) # NULL
                           THEN <<DeleteStmt(guid), SaveStmt(guid)>>
                           ELSE <<SaveStmt(guid)>>
             /\ queue' = queue \o CreateStmts(GetGMTicket(guid) # NULL,
                                              MapSlot(m_GMTicketMap, guid),
                                              TicketInit(guid, text, "", now))
    /\ \A guid \in Authors :
          (Delete(guid) /\ GetGMTicket(guid) # NULL) =>
             /\ dbCalls' = <<DeleteStmt(guid)>>
             /\ queue' = Append(queue, Stmt("delete", m_GMTicketMap[guid]))

\* No statement about guid is waiting in the queue.
Settled(guid) == \A i \in DOMAIN queue : OwnerOf(queue[i]) # guid

\* The rows of guid in the table.
StoredOf(guid) == SelectSeq(db, LAMBDA r : r.guid = guid)

\* Once the statements about a guid are executed the table has the row of its
\* ticket, and no row when it has no ticket.
SettledRowMatches ==
    \A guid \in Authors :
        Settled(guid) =>
            IF GetGMTicket(guid) = NULL
            THEN StoredOf(guid) = <<>>
            ELSE StoredOf(guid) = <<RowOf(m_GMTicketMap[guid])>>

\* C18: the statements of a call are given to the database in a fixed order
\* (replacing Create: delete then save; Delete: delete), and with a client that
\* executes queued statements in their order for each guid, a Create followed
\* by a Delete of the same guid ends with no row of that guid, whatever the
\* interleaving with statements about other guids.
C18_OrderPerOwner == []SettledRowMatches /\ [][IssueOrder]_vars

\* Create and Delete of 1 were queued with a Create of 2 between them, the
\* worker has executed everything, and the table has the row of 2 only.
C18_Witness ==
    /\ asyncStore
    /\ lastCall = Call("Delete", 1, "")
    /\ dbCalls = <<DeleteStmt(1)>>
    /\ queue = <<>>
    /\ StoredOf(1) = <<>>
    /\ GetGMTicket(1) = NULL
    /\ StoredOf(2) # <<>>

\* The rows of the table whose guid is the guid of a player, in stored order.
GoodRows == SelectSeq(db, LAMBDA r : r.guid \in Players)

\* C19: LoadGMTickets skips the rows with a malformed or empty guid and goes
\* on: after it the registry has exactly the tickets of the other rows, listed
\* in their stored order, whatever rows come before them.
C19_LoadSkipsBadRows ==
    [][LoadGMTickets =>
          /\ m_GMTicketListByCreatingOrder' = [i \in DOMAIN GoodRows |-> GoodRows[i].guid]
          /\ DOMAIN m_GMTicketMap' = {GoodRows[i].guid : i \in DOMAIN GoodRows}
          /\ \A i \in DOMAIN GoodRows :
                RowOf(m_GMTicketMap'[GoodRows[i].guid]) = GoodRows[i]]_vars

\* A table with a malformed row between the rows of 1 and 2 has been loaded:
\* both are registered, in that order.
C19_Witness ==
    /\ lastCall.op = "LoadGMTickets"
    /\ Len(db) = 3
    /\ db[1].guid = 1 /\ db[2].guid = Malformed /\ db[3].guid = 2
    /\ m_GMTicketListByCreatingOrder = <<1, 2>>
    /\ GetGMTicket(2) = 2

\* The calls that only read.
Lookups == {"GetGMTicket", "GetGMTicketByOrderPos", "GetTicketCount", "WillAcceptTickets"}

\* C20: GetGMTicket, GetGMTicketByOrderPos, GetTicketCount and
\* WillAcceptTickets change neither the map, the list, a ticket, the flag nor
\* the table; GetGMTicket of a guid without ticket returns NULL and makes no
\* slot for it, so GetTicketCount() is the same before and after.
C20_LookupsReadOnly ==
    [][/\ lastCall'.op \in Lookups =>
             /\ registry' = registry
             /\ dbCalls' = <<>>
             /\ GetTicketCount' = GetTicketCount
       /\ \A guid \in ObjectGuids :
             (lastCall' = Call("GetGMTicket", guid, "") /\ guid \notin DOMAIN m_GMTicketMap) =>
                /\ returned' = Ptr(NULL)
                /\ guid \notin DOMAIN m_GMTicketMap'
       /\ \A guid \in DOMAIN m_GMTicketMap :
             lastCall' = Call("GetGMTicket", guid, "") => returned' = Ptr(guid)
       /\ lastCall'.op = "GetTicketCount" =>
             returned' = Size(Cardinality(DOMAIN m_GMTicketMap))
       /\ lastCall'.op = "WillAcceptTickets" =>
             returned' = Bool(m_TicketSystemOn)]_vars

\* GetGMTicket(2) was called while only 1 has a ticket: it returned NULL and
\* the registry still has one ticket.
C20_Witness ==
    /\ lastCall = Call("GetGMTicket", 2, "")
    /\ returned = Ptr(NULL)
    /\ GetTicketCount = 1
    /\ DOMAIN m_GMTicketMap = {1}
    /\ m_GMTicketListByCreatingOrder = <<1>>

\* After a Create with the null pointer for text the map holds a slot that the
\* list does not.
ListShorterThanMap == Len(m_GMTicketListByCreatingOrder) < GetTicketCount

\* GetGMTicketByOrderPos was called with a position below the count and beyond
\* the end of the list.
PastEndCalled ==
    /\ lastCall.op = "GetGMTicketByOrderPos"
    /\ lastCall.guid < GetTicketCount
    /\ lastCall.guid > Len(m_GMTicketListByCreatingOrder)

\* Such a call aborted the process.
PastEndAborted == PastEndCalled /\ returned = Abort

\* Such a call wrapped round to an element of the list and returned it.
PastEndWrapped == PastEndCalled /\ returned.kind = "ptr" /\ returned.val # NULL

\* These states are reached only with the null pointer for text: with texts
\* that are strings the list is never shorter than the map.
ListCoversMap == ~ListShorterThanMap
NoPastEndAbort == ~PastEndAborted
NoPastEndWrap == ~PastEndWrapped

====
